---- MODULE Spec2Model ----
(***************************************************************************)
(* Model of @workflow/world-sql: the polling job queue (table-queue), the  *)
(* runs, steps and hooks storage, and the polling streamer.  Every         *)
(* database statement is one atomic step; the awaits between the           *)
(* statements of one operation are the points where other operations       *)
(* interleave.                                                             *)
(***************************************************************************)
EXTENDS Integers, Sequences, FiniteSets, TLC

VARIABLES
  dbType,        \* back-end the world was created for: "mysql" or "sqlite"
  now,           \* wall clock in ms (new Date() / Date.now())
  jobs,          \* the workflow_jobs table: id -> row
  nextMessageId, \* the monotonic ULID factory of the queue (generateMessageId)
  qcall,         \* the queue() calls in progress
  tasks,         \* the processJob invocations in flight
  handler,       \* behaviour of the Executor for each job
  execCount,     \* history: number of Executor invocations per job
  statusTrace,   \* history: the statuses a job row has passed through
  overlap,       \* history: a poll selected the job while it was still being handled
  runs,          \* the workflow_runs table: runId -> row
  nextRunId,     \* the monotonic ULID factory of the runs storage
  rcall,         \* the runs.* calls in progress
  everRunning,   \* history: the run has been stored with status "running"
  createArgs,    \* history: the data each run was created with
  steps,         \* the workflow_steps table: stepId -> row
  hooks,         \* the workflow_hooks table: hookId -> row
  ecall,         \* the steps.* and hooks.* calls in progress
  streams,       \* the workflow_stream_chunks rows of one stream, in chunkId order
  writer,        \* position of the process that writes the stream
  pollingIntervals, \* the stream has a polling timer (pollingIntervals.has)
  lastSeenChunks,   \* poll position of the stream, 0 when absent or ''
  listeners,     \* the onData listeners of the stream, in subscription order
  readers,       \* the ReadableStreams returned by readFromStream
  ticks,         \* the timer callbacks of the stream that are in flight
  events,        \* the workflow_events table: eventId -> row
  lcall,         \* the listing each caller is paging through
  isRunning,     \* the running flag of the queue
  workerIntervals, \* the interval timers of the queue: the queue-name each polls
  connected,     \* adapter.connect() has resolved
  startPc,       \* position of the caller of World.start()
  setupNext,     \* setupListeners: number of the next startWorker call
  startCalls,    \* number of World.start() calls made
  polling,       \* pollQueue invocations that await their SELECT, per queue-name
  stopReturned   \* history: stop() has returned and start() was not called since

queueVars == <<jobs, nextMessageId, qcall, tasks, handler, execCount, statusTrace, overlap>>
runVars == <<runs, nextRunId, rcall, everRunning, createArgs>>
entityVars == <<steps, hooks, ecall>>
streamVars == <<streams, writer, pollingIntervals, lastSeenChunks, listeners, readers, ticks>>
listVars == <<events, lcall>>
workerVars == <<isRunning, workerIntervals, connected, startPc, setupNext, startCalls,
                polling, stopReturned>>
vars == <<dbType, now, queueVars, runVars, entityVars, streamVars, listVars, workerVars>>

----------------------------------------------------------------------------
(* Bounds of the model *)

MaxCalls == 2
MaxJobs == 1
MaxTasks == 2
MaxTimeQueue == 3000
MaxTrace == 8
MaxRuns == 1
MaxClients == 2
MaxTimeRuns == 1
MaxCallers == 1
MaxSteps == 1
MaxHooks == 1
MaxChunks == 3
MaxReaders == 2
MaxTicks == 2
MaxStartIndex == 1
MaxListed == 3
MaxLimit == 2
TestRuns == 25
TestLimit == 10
QueueConcurrency == 1
MaxStarts == 2
MaxPolls == 1

(* Program constants *)

NULL == -1
lockDuration == 30000
maxAttempts == 3
PollLimit == 10
RetryBase == 1000
RetryCap == 60000
PollChunkLimit == 100

DatabaseTypes == {"mysql", "sqlite"}
QCalls == 1 .. MaxCalls
JobIds == 1 .. MaxCalls
Tasks == 1 .. MaxTasks
NoKey == "none"
Keys == {"K"}
QueueNames == {"workflow_flows", "workflow_steps"}
HandlerScripts == {"succeeds", "throwsTwice", "alwaysThrows"}
TickSteps == {1000, lockDuration + 1000}
WorkerCalls == 1 .. MaxJobs

Min(S) == CHOOSE x \in S : \A y \in S : x <= y

RECURSIVE Pow2(_)
Pow2(n) == IF n = 0 THEN 1 ELSE 2 * Pow2(n - 1)

----------------------------------------------------------------------------
(* queue(): enqueue with idempotency check *)

IdleCall == [pc |-> "idle", queueName |-> "workflow_flows", key |-> NoKey,
             messageId |-> 0, result |-> 0, after |-> {}]

\* Mutant: the existence SELECT never finds a row.
ExistingByKeyNone(k) == {}

\* SELECT ... WHERE idempotencyKey = k
ExistingByKey(k) == {j \in DOMAIN jobs : jobs[j].idempotencyKey = k}

NewJob(name, k) ==
  [queueName |-> name, status |-> "pending", attempts |-> 0,
   maxAttempts |-> maxAttempts, lockedUntil |-> NULL, scheduledFor |-> now,
   idempotencyKey |-> k, error |-> FALSE]

AppendTrace(tr, s) == IF Len(tr) < MaxTrace THEN Append(tr, s) ELSE tr

\* queue() up to the await of the existence SELECT (or of the INSERT when
\* no idempotency key was given): the messageId is generated first.
QueueCheck(c, name, k) ==
  /\ qcall[c].pc = "idle"
  /\ nextMessageId <= MaxCalls
  /\ nextMessageId' = nextMessageId + 1
  /\ LET started == [qcall[c] EXCEPT !.queueName = name, !.key = k,
                        !.messageId = nextMessageId,
                        !.after = {d \in QCalls : qcall[d].pc = "done"}]
     IN IF k # NoKey /\ ExistingByKey(k) # {}
        THEN \E e \in ExistingByKey(k) :
               qcall' = [qcall EXCEPT ![c] = [started EXCEPT !.pc = "done", !.result = e]]
        ELSE qcall' = [qcall EXCEPT ![c] = [started EXCEPT !.pc = "insert"]]
  /\ UNCHANGED <<dbType, listVars, workerVars, streamVars, entityVars, now, jobs, tasks, handler, execCount, statusTrace, overlap, runVars>>

QueueInsert(c) ==
  /\ qcall[c].pc = "insert"
  /\ jobs' = [j \in DOMAIN jobs \cup {qcall[c].messageId} |->
                IF j = qcall[c].messageId
                THEN NewJob(qcall[c].queueName, qcall[c].key)
                ELSE jobs[j]]
  /\ statusTrace' = [statusTrace EXCEPT ![qcall[c].messageId] = <<"pending">>]
  /\ qcall' = [qcall EXCEPT ![c].pc = "done", ![c].result = qcall[c].messageId]
  /\ UNCHANGED <<dbType, listVars, workerVars, streamVars, entityVars, now, nextMessageId, tasks, handler, execCount, overlap, runVars>>

----------------------------------------------------------------------------
(* pollQueue / processJob *)

FreeTask == [pc |-> "free", id |-> 0, attempts |-> 0, maxAttempts |-> 0,
             now |-> 0, granted |-> FALSE]

Active(t) == tasks[t].pc # "free"
Holding(t) == tasks[t].pc \in {"exec", "succeeded", "threw"}

\* WHERE clause of the poll SELECT
Available(name) ==
  {j \in DOMAIN jobs :
     /\ jobs[j].queueName = name
     /\ jobs[j].status = "pending"
     /\ jobs[j].scheduledFor <= now
     /\ (jobs[j].lockedUntil = NULL \/ jobs[j].lockedUntil <= now)}

\* LIMIT 10 without ORDER BY: any PollLimit of the matching rows.
PollBatches(name) ==
  IF Cardinality(Available(name)) <= PollLimit
  THEN {Available(name)}
  ELSE {S \in SUBSET Available(name) : Cardinality(S) = PollLimit}

NewTask(j) == [pc |-> "lease", id |-> j, attempts |-> jobs[j].attempts,
               maxAttempts |-> jobs[j].maxAttempts, now |-> now, granted |-> FALSE]

RECURSIVE Spawn(_, _)
Spawn(ts, S) ==
  IF S = {} THEN ts
  ELSE LET j == Min(S)
           t == Min({u \in Tasks : ts[u].pc = "free"})
       IN Spawn([ts EXCEPT ![t] = NewTask(j)], S \ {j})

\* One firing of a worker's interval timer: the SELECT, then processJob is
\* started for every selected row (Promise.all).
PollQueue(name) ==
  \E S \in PollBatches(name) :
    /\ isRunning
    /\ S # {}
    /\ Cardinality(S) <= Cardinality({t \in Tasks : ~Active(t)})
    /\ tasks' = Spawn(tasks, S)
    /\ overlap' = [j \in JobIds |->
                     overlap[j] \/ (j \in S /\ \E t \in Tasks : Active(t) /\ tasks[t].id = j)]
    /\ UNCHANGED <<dbType, listVars, workerVars, streamVars, entityVars, now, jobs, nextMessageId, qcall, handler, execCount, statusTrace, runVars>>

\* Mutant: the lease UPDATE looks for a row that is already being processed.
LeaseWhereProcessing(j, t) ==
  /\ j \in DOMAIN jobs
  /\ jobs[j].status = "processing"
  /\ (jobs[j].lockedUntil = NULL \/ jobs[j].lockedUntil <= tasks[t].now)

\* WHERE clause of the lease UPDATE
LeaseWhere(j, t) ==
  /\ j \in DOMAIN jobs
  /\ jobs[j].status = "pending"
  /\ (jobs[j].lockedUntil = NULL \/ jobs[j].lockedUntil <= tasks[t].now)

\* Mutant: the lease does not count the attempt.
LeaseSetKeepAttempts(row, t) ==
  [row EXCEPT !.status = "processing",
              !.lockedUntil = tasks[t].now + lockDuration]

LeaseSet(row, t) ==
  [row EXCEPT !.status = "processing",
              !.lockedUntil = tasks[t].now + lockDuration,
              !.attempts = tasks[t].attempts + 1]

\* What drizzle-orm/mysql2 resolves an UPDATE to: the driver's
\* ResultSetHeader, which reports the count as affectedRows.
MySqlUpdateResult(matched) == [affectedRows |-> IF matched THEN 1 ELSE 0]

\* (result as any).rowsAffected === 0
RowsAffectedIsZero(result) ==
  IF "rowsAffected" \in DOMAIN result THEN result.rowsAffected = 0 ELSE FALSE

\* The lease UPDATE of processJob.
Lease(t) ==
  /\ tasks[t].pc = "lease"
  /\ LET j == tasks[t].id
         matched == LeaseWhere(j, t)
     IN /\ jobs' = IF matched THEN [jobs EXCEPT ![j] = LeaseSet(jobs[j], t)] ELSE jobs
        /\ statusTrace' = IF matched
                          THEN [statusTrace EXCEPT ![j] = AppendTrace(@, "processing")]
                          ELSE statusTrace
        /\ IF dbType = "mysql"
           THEN IF RowsAffectedIsZero(MySqlUpdateResult(matched))
                THEN tasks' = [tasks EXCEPT ![t] = FreeTask]
                ELSE tasks' = [tasks EXCEPT ![t].pc = "select", ![t].granted = matched]
           ELSE \* UPDATE ... RETURNING: locked is the returned row, if any
                IF matched
                THEN tasks' = [tasks EXCEPT ![t].pc = "exec", ![t].granted = TRUE]
                ELSE tasks' = [tasks EXCEPT ![t] = FreeTask]
  /\ UNCHANGED <<dbType, listVars, workerVars, streamVars, entityVars, now, nextMessageId, qcall, handler, execCount, overlap, runVars>>

\* MySQL: SELECT the locked job by id; !locked only when the row is absent.
LeaseSelect(t) ==
  /\ tasks[t].pc = "select"
  /\ tasks' = IF tasks[t].id \in DOMAIN jobs
              THEN [tasks EXCEPT ![t].pc = "exec"]
              ELSE [tasks EXCEPT ![t] = FreeTask]
  /\ UNCHANGED <<dbType, listVars, workerVars, streamVars, entityVars, now, jobs, nextMessageId, qcall, handler, execCount, statusTrace, overlap, runVars>>

\* Does the n-th invocation of the Executor for a job throw?
Throws(script, n) ==
  CASE script = "succeeds" -> FALSE
    [] script = "throwsTwice" -> n <= 2
    [] script = "alwaysThrows" -> TRUE

\* The try block: decode the payload and dispatch to the Executor.
Invoke(t) ==
  /\ tasks[t].pc = "exec"
  /\ LET j == tasks[t].id
         n == execCount[j] + 1
     IN /\ execCount' = [execCount EXCEPT ![j] = n]
        /\ tasks' = [tasks EXCEPT ![t].pc =
                       IF Throws(handler[j], n) THEN "threw" ELSE "succeeded"]
  /\ UNCHANGED <<dbType, listVars, workerVars, streamVars, entityVars, now, jobs, nextMessageId, qcall, handler, statusTrace, overlap, runVars>>

\* Mutant: the success write leaves lockedUntil as the lease set it.
WriteCompletedKeepLock(t) ==
  /\ tasks[t].pc = "succeeded"
  /\ LET j == tasks[t].id
     IN /\ jobs' = [jobs EXCEPT ![j].status = "completed"]
        /\ statusTrace' = IF jobs[j].status # "completed"
                          THEN [statusTrace EXCEPT ![j] = AppendTrace(@, "completed")]
                          ELSE statusTrace
  /\ tasks' = [tasks EXCEPT ![t] = FreeTask]
  /\ UNCHANGED <<dbType, listVars, workerVars, streamVars, entityVars, now, nextMessageId, qcall, handler, execCount, overlap, runVars>>

\* Mark job as completed
WriteCompleted(t) ==
  /\ tasks[t].pc = "succeeded"
  /\ LET j == tasks[t].id
     IN /\ jobs' = [jobs EXCEPT ![j].status = "completed", ![j].lockedUntil = NULL]
        /\ statusTrace' = IF jobs[j].status # "completed"
                          THEN [statusTrace EXCEPT ![j] = AppendTrace(@, "completed")]
                          ELSE statusTrace
  /\ tasks' = [tasks EXCEPT ![t] = FreeTask]
  /\ UNCHANGED <<dbType, listVars, workerVars, streamVars, entityVars, now, nextMessageId, qcall, handler, execCount, overlap, runVars>>

\* Mutant: the exponent is the attempt count after the lease.
RetryDelayAfterLease(attempts) ==
  IF RetryBase * Pow2(attempts + 1) < RetryCap
  THEN RetryBase * Pow2(attempts + 1) ELSE RetryCap

\* Math.min(1000 * Math.pow(2, job.attempts), 60000)
RetryDelay(attempts) ==
  IF RetryBase * Pow2(attempts) < RetryCap THEN RetryBase * Pow2(attempts) ELSE RetryCap

MaxAttemptsReached(t) == tasks[t].attempts + 1 >= tasks[t].maxAttempts

\* The catch block: failed for good, or pending again with a backoff.
WriteFailure(t) ==
  /\ tasks[t].pc = "threw"
  /\ LET j == tasks[t].id
         newStatus == IF MaxAttemptsReached(t) THEN "failed" ELSE "pending"
     IN /\ jobs' = IF MaxAttemptsReached(t)
                   THEN [jobs EXCEPT ![j].status = "failed", ![j].error = TRUE,
                                     ![j].lockedUntil = NULL]
                   ELSE [jobs EXCEPT ![j].status = "pending",
                                     ![j].scheduledFor = now + RetryDelay(tasks[t].attempts),
                                     ![j].error = TRUE, ![j].lockedUntil = NULL]
        /\ statusTrace' = IF jobs[j].status # newStatus
                          THEN [statusTrace EXCEPT ![j] = AppendTrace(@, newStatus)]
                          ELSE statusTrace
  /\ tasks' = [tasks EXCEPT ![t] = FreeTask]
  /\ UNCHANGED <<dbType, listVars, workerVars, streamVars, entityVars, now, nextMessageId, qcall, handler, execCount, overlap, runVars>>

\* The worker process dies while it holds a lease: nothing is written.
WorkerCrash(t) ==
  /\ Holding(t)
  /\ tasks' = [tasks EXCEPT ![t] = FreeTask]
  /\ UNCHANGED <<dbType, listVars, workerVars, streamVars, entityVars, now, jobs, nextMessageId, qcall, handler, execCount, statusTrace, overlap, runVars>>

TickQueue ==
  /\ now < MaxTimeQueue
  /\ \E d \in TickSteps : now' = now + d
  /\ UNCHANGED <<dbType, listVars, workerVars, streamVars, entityVars, queueVars, runVars>>

----------------------------------------------------------------------------
(* start / stop of the queue workers *)

\* setupListeners: the queue-name of the k-th startWorker call, QueueConcurrency
\* calls for each entry of Queues in turn.
WorkerOf(k) == IF k <= QueueConcurrency THEN "workflow_flows" ELSE "workflow_steps"
SetupCalls == 2 * QueueConcurrency

\* The number of interval timers that poll a queue-name.
TimersOf(name) ==
  Cardinality({i \in DOMAIN workerIntervals : workerIntervals[i] = name})

\* startWorker: setInterval(() => pollQueue(queueName), 200) and push.
startWorker(k) ==
  /\ workerIntervals' = Append(workerIntervals, WorkerOf(k))
  /\ setupNext' = k + 1
  /\ startPc' = IF k = SetupCalls THEN "idle" ELSE "setup"

\* World.start() up to the await of adapter.connect().
WorldStart ==
  /\ startPc = "idle"
  /\ startCalls < MaxStarts
  /\ startPc' = "connect"
  /\ startCalls' = startCalls + 1
  /\ UNCHANGED <<dbType, listVars, now, queueVars, runVars, entityVars, streamVars,
                 isRunning, workerIntervals, connected, setupNext, polling, stopReturned>>

\* adapter.connect() has resolved; queue.start() sets isRunning and runs
\* setupListeners up to its first await.
QueueStart ==
  /\ startPc = "connect"
  /\ connected' = TRUE
  /\ isRunning' = TRUE
  /\ stopReturned' = FALSE
  /\ startWorker(1)
  /\ UNCHANGED <<dbType, listVars, now, queueVars, runVars, entityVars, streamVars,
                 startCalls, polling>>

\* setupListeners after an await: the next startWorker call.
SetupListeners ==
  /\ startPc = "setup"
  /\ startWorker(setupNext)
  /\ UNCHANGED <<dbType, listVars, now, queueVars, runVars, entityVars, streamVars,
                 isRunning, connected, startCalls, polling, stopReturned>>

\* stop(): it has no await.
Stop ==
  /\ isRunning' = FALSE
  /\ workerIntervals' = <<>>
  /\ stopReturned' = TRUE
  /\ UNCHANGED <<dbType, listVars, now, queueVars, runVars, entityVars, streamVars,
                 connected, startPc, setupNext, startCalls, polling>>

\* A timer of the queue-name fires: pollQueue up to the await of its SELECT.
\* When isRunning is false pollQueue returns at once and nothing changes.  No
\* timer callback runs between the awaits of setupListeners, which wait for
\* nothing.
PollQueueBegin(name) ==
  /\ TimersOf(name) > 0
  /\ startPc # "setup"
  /\ isRunning
  /\ polling[name] < MaxPolls
  /\ polling' = [polling EXCEPT ![name] = @ + 1]
  /\ UNCHANGED <<dbType, listVars, now, queueVars, runVars, entityVars, streamVars,
                 isRunning, workerIntervals, connected, startPc, setupNext, startCalls,
                 stopReturned>>

\* The SELECT of a pollQueue invocation, and processJob started for every
\* selected row (Promise.all).
PollQueueSelect(name) ==
  /\ polling[name] > 0
  /\ \E S \in PollBatches(name) :
       /\ Cardinality(S) <= Cardinality({t \in Tasks : ~Active(t)})
       /\ tasks' = Spawn(tasks, S)
       /\ overlap' = [j \in JobIds |->
                        overlap[j] \/ (j \in S /\ \E t \in Tasks : Active(t) /\ tasks[t].id = j)]
  /\ polling' = [polling EXCEPT ![name] = @ - 1]
  /\ UNCHANGED <<dbType, listVars, now, jobs, nextMessageId, qcall, handler, execCount,
                 statusTrace, runVars, entityVars, streamVars, isRunning, workerIntervals,
                 connected, startPc, setupNext, startCalls, stopReturned>>

\* The queue before start().
InitWorkerIdle ==
  /\ isRunning = FALSE
  /\ workerIntervals = <<>>
  /\ connected = FALSE
  /\ startPc = "idle"
  /\ setupNext = 1
  /\ startCalls = 0
  /\ polling = [name \in QueueNames |-> 0]
  /\ stopReturned = FALSE

\* The queue after one start().
InitWorkerStarted ==
  /\ isRunning = TRUE
  /\ workerIntervals = [k \in 1 .. SetupCalls |-> WorkerOf(k)]
  /\ connected = TRUE
  /\ startPc = "idle"
  /\ setupNext = SetupCalls + 1
  /\ startCalls = 1
  /\ polling = [name \in QueueNames |-> 0]
  /\ stopReturned = FALSE

----------------------------------------------------------------------------
(* Runs storage *)

Clients == 1 .. MaxClients
RunIds == 1 .. MaxRuns
RunStatuses == {"pending", "running", "paused", "completed", "failed", "cancelled"}
TerminalStatuses == {"completed", "failed", "cancelled"}
NoRow == [status |-> "none", startedAt |-> NULL, completedAt |-> NULL]
NoUpdates == [status |-> "none", startedAt |-> NULL, completedAt |-> NULL]
IdleClient == [pc |-> "idle", op |-> "none", id |-> 0, updates |-> NoUpdates,
               matched |-> FALSE, ret |-> "none", row |-> NoRow]

\* drizzle.update(table).set(updates): the columns named in updates are written.
ApplyUpdates(row, u) ==
  [row EXCEPT !.status = IF u.status # "none" THEN u.status ELSE @,
              !.startedAt = IF u.startedAt # NULL THEN u.startedAt ELSE @,
              !.completedAt = IF u.completedAt # NULL THEN u.completedAt ELSE @]

\* The field matched of a call is history: its UPDATE matched a row.
\* updateAndReturn: the UPDATE ... WHERE statement on the runs table, issued by
\* client c for run id with the given updates; matched is the WHERE clause.
\* Native RETURNING returns the updated rows at once; MySQL goes on to SELECT
\* by primary key.
UpdateAndReturn(c, op, id, u, matched) ==
  /\ runs' = IF matched THEN [runs EXCEPT ![id] = ApplyUpdates(@, u)] ELSE runs
  /\ everRunning' = IF matched /\ u.status = "running"
                    THEN [everRunning EXCEPT ![id] = TRUE] ELSE everRunning
  /\ IF dbType = "mysql"
     THEN rcall' = [rcall EXCEPT ![c] =
                      [pc |-> "select", op |-> op, id |-> id, updates |-> u,
                       matched |-> matched, ret |-> "none", row |-> NoRow]]
     ELSE rcall' = [rcall EXCEPT ![c] =
                      [pc |-> "idle", op |-> op, id |-> id, updates |-> NoUpdates,
                       matched |-> FALSE,
                       ret |-> IF matched THEN "ok" ELSE "404",
                       row |-> IF matched THEN ApplyUpdates(runs[id], u) ELSE NoRow]]

\* MySQL: SELECT ... WHERE primaryKey = id LIMIT 1 after the UPDATE.
RunsSelect(c) ==
  /\ rcall[c].pc = "select"
  /\ LET id == rcall[c].id
     IN rcall' = [rcall EXCEPT ![c].pc = "idle", ![c].updates = NoUpdates,
                               ![c].matched = FALSE,
                               ![c].ret = IF id \in DOMAIN runs THEN "ok" ELSE "404",
                               ![c].row = IF id \in DOMAIN runs THEN runs[id] ELSE NoRow]
  /\ UNCHANGED <<dbType, listVars, workerVars, streamVars, entityVars, now, queueVars, createArgs, runs, nextRunId, everRunning>>

\* The arrays a caller may pass as input: one JSON value, or undefined, which
\* JSON cannot represent.
ArrayElements == {"hello", "null", "undefined"}
Inputs == {<<e>> : e \in ArrayElements}
WorkflowNames == {"wfA", "wfB"}
DeploymentIds == {"dep_example"}
RunData == [input : Inputs, workflowName : WorkflowNames, deploymentId : DeploymentIds]
PlainRunData == [input |-> <<"hello">>, workflowName |-> "wfA",
                 deploymentId |-> "dep_example"]

\* A column declared { mode: 'json' } is written with JSON.stringify and read
\* with JSON.parse; JSON.stringify writes an undefined array element as null.
JsonStringifyNulls(value) ==
  [i \in DOMAIN value |-> "null"]
JsonStringify(value) ==
  [i \in DOMAIN value |-> IF value[i] = "undefined" THEN "null" ELSE value[i]]
JsonParse(text) == text
JsonRepresentable(value) == \A i \in DOMAIN value : value[i] # "undefined"

\* The row of a new run, as the column mapping reads it back.
InsertedRun(data) ==
  [status |-> "pending", startedAt |-> NULL, completedAt |-> NULL,
   input |-> JsonParse(JsonStringify(data.input)),
   workflowName |-> data.workflowName, deploymentId |-> data.deploymentId]

\* `wrun_${ulid()}`: the n-th identifier of the monotonic factory.
RunIdText(n) == <<"wrun_", n>>

\* runs.create: a fresh runId, status pending; the inserted row is returned.
RunsCreate(c, data) ==
  /\ rcall[c].pc = "idle"
  /\ nextRunId <= MaxRuns
  /\ LET row == InsertedRun(data)
     IN /\ runs' = [r \in DOMAIN runs \cup {nextRunId} |->
                      IF r = nextRunId THEN row ELSE runs[r]]
        /\ rcall' = [rcall EXCEPT ![c] =
                        [pc |-> "idle", op |-> "create", id |-> nextRunId,
                         updates |-> NoUpdates, matched |-> FALSE, ret |-> "ok",
                         row |-> row]]
  /\ everRunning' = [r \in DOMAIN everRunning \cup {nextRunId} |->
                       IF r = nextRunId THEN FALSE ELSE everRunning[r]]
  /\ createArgs' = [r \in DOMAIN createArgs \cup {nextRunId} |->
                      IF r = nextRunId THEN data ELSE createArgs[r]]
  /\ nextRunId' = nextRunId + 1
  /\ UNCHANGED <<dbType, listVars, workerVars, streamVars, entityVars, now, queueVars>>

RunsCancel(c, id) ==
  /\ rcall[c].pc = "idle"
  /\ UpdateAndReturn(c, "cancel", id,
                     [status |-> "cancelled", startedAt |-> NULL, completedAt |-> now],
                     id \in DOMAIN runs)
  /\ UNCHANGED <<dbType, listVars, workerVars, streamVars, entityVars, now, queueVars, createArgs, nextRunId>>

RunsPause(c, id) ==
  /\ rcall[c].pc = "idle"
  /\ UpdateAndReturn(c, "pause", id,
                     [status |-> "paused", startedAt |-> NULL, completedAt |-> NULL],
                     id \in DOMAIN runs)
  /\ UNCHANGED <<dbType, listVars, workerVars, streamVars, entityVars, now, queueVars, createArgs, nextRunId>>

RunsResume(c, id) ==
  /\ rcall[c].pc = "idle"
  /\ UpdateAndReturn(c, "resume", id,
                     [status |-> "running", startedAt |-> NULL, completedAt |-> NULL],
                     id \in DOMAIN runs /\ runs[id].status = "paused")
  /\ UNCHANGED <<dbType, listVars, workerVars, streamVars, entityVars, now, queueVars, createArgs, nextRunId>>

\* runs.update, first half: fetch the current run and build the updates.
RunsUpdateRead(c, id, status) ==
  /\ rcall[c].pc = "idle"
  /\ IF id \notin DOMAIN runs
     THEN rcall' = [rcall EXCEPT ![c] =
                      [pc |-> "idle", op |-> "update", id |-> id,
                       updates |-> NoUpdates, matched |-> FALSE, ret |-> "404",
                       row |-> NoRow]]
     ELSE rcall' = [rcall EXCEPT ![c] =
                      [pc |-> "update", op |-> "update", id |-> id,
                       updates |->
                         [status |-> status,
                          startedAt |-> IF status = "running" /\ runs[id].startedAt = NULL
                                        THEN now ELSE NULL,
                          completedAt |-> IF status \in TerminalStatuses
                                          THEN now ELSE NULL],
                       matched |-> FALSE, ret |-> "none", row |-> NoRow]]
  /\ UNCHANGED <<dbType, listVars, workerVars, streamVars, entityVars, now, queueVars, createArgs, runs, nextRunId, everRunning>>

\* runs.update, second half: the UPDATE by runId.
RunsUpdateWrite(c) ==
  /\ rcall[c].pc = "update"
  /\ UpdateAndReturn(c, "update", rcall[c].id, rcall[c].updates,
                     rcall[c].id \in DOMAIN runs)
  /\ UNCHANGED <<dbType, listVars, workerVars, streamVars, entityVars, now, queueVars, createArgs, nextRunId>>

TickRuns ==
  /\ now < MaxTimeRuns
  /\ now' = now + 1
  /\ UNCHANGED <<dbType, listVars, workerVars, streamVars, entityVars, queueVars, runVars>>

----------------------------------------------------------------------------
(* steps and hooks storage *)

Callers == 1 .. MaxCallers
StepIds == 1 .. MaxSteps
HookIds == 1 .. MaxHooks
Tokens == {"tok"}
StepStatuses == {"pending", "running", "completed", "failed"}
NoEntity == [kind |-> "none"]
IdleEntityCall == [pc |-> "idle", op |-> "none", id |-> 0, runId |-> 0, token |-> "none",
                   updates |-> NoUpdates, ret |-> "none", row |-> NoEntity]

\* The call of caller c returns ret (and row) to its caller.
EntityReturn(c, op, id, runId, token, ret, row) ==
  ecall' = [ecall EXCEPT ![c] =
              [pc |-> "idle", op |-> op, id |-> id, runId |-> runId, token |-> token,
               updates |-> NoUpdates, ret |-> ret, row |-> row]]

\* The call of caller c goes on to its next statement.
EntityGoto(c, pc, op, id, runId, token, u, row) ==
  ecall' = [ecall EXCEPT ![c] =
              [pc |-> pc, op |-> op, id |-> id, runId |-> runId, token |-> token,
               updates |-> u, ret |-> "none", row |-> row]]

\* insertAndReturn(..., 'doNothing'): the INSERT.  RETURNING yields the
\* inserted row, or nothing on a conflict; MySQL swallows the duplicate-key
\* error 1062 in its catch block and goes on to SELECT by primary key.
InsertAndReturn(c, op, table, id, runId, token, row) ==
  IF dbType = "mysql"
  THEN EntityGoto(c, IF id \in DOMAIN table THEN "caught1062" ELSE "select",
                  op, id, runId, token, NoUpdates, NoEntity)
  ELSE EntityReturn(c, op, id, runId, token,
                    IF id \in DOMAIN table THEN "409" ELSE "ok",
                    IF id \in DOMAIN table THEN NoEntity ELSE row)

Inserted(table, id, row) ==
  IF id \in DOMAIN table THEN table
  ELSE [k \in DOMAIN table \cup {id} |-> IF k = id THEN row ELSE table[k]]

StepsCreate(c, runId, stepId) ==
  /\ ecall[c].pc = "idle"
  /\ LET row == [runId |-> runId, status |-> "pending", startedAt |-> NULL,
                 completedAt |-> NULL]
     IN /\ steps' = Inserted(steps, stepId, row)
        /\ InsertAndReturn(c, "steps.create", steps, stepId, runId, "none", row)
  /\ UNCHANGED <<dbType, listVars, workerVars, streamVars, now, queueVars, runVars, hooks>>

HooksCreate(c, runId, hookId, token) ==
  /\ ecall[c].pc = "idle"
  /\ LET row == [runId |-> runId, token |-> token]
     IN /\ hooks' = Inserted(hooks, hookId, row)
        /\ InsertAndReturn(c, "hooks.create", hooks, hookId, runId, token, row)
  /\ UNCHANGED <<dbType, listVars, workerVars, streamVars, now, queueVars, runVars, steps>>

\* MySQL: SELECT ... WHERE primaryKey = id LIMIT 1 after the INSERT (also after
\* a swallowed duplicate-key error) or UPDATE.
EntitySelect(c) ==
  /\ ecall[c].pc \in {"select", "caught1062"}
  /\ LET call == ecall[c]
         table == IF call.op = "hooks.create" THEN hooks ELSE steps
         found == call.id \in DOMAIN table
     IN EntityReturn(c, call.op, call.id, call.runId, call.token,
                     IF found THEN "ok"
                     ELSE IF call.op = "steps.update" THEN "404" ELSE "409",
                     IF found THEN table[call.id] ELSE NoEntity)
  /\ UNCHANGED <<dbType, listVars, workerVars, streamVars, now, queueVars, runVars, steps, hooks>>

\* WHERE stepId = ? AND runId = ?
StepFound(runId, stepId) == stepId \in DOMAIN steps /\ steps[stepId].runId = runId

StepsGet(c, runId, stepId) ==
  /\ ecall[c].pc = "idle"
  /\ EntityReturn(c, "steps.get", stepId, runId, "none",
                  IF StepFound(runId, stepId) THEN "ok" ELSE "404",
                  IF StepFound(runId, stepId) THEN steps[stepId] ELSE NoEntity)
  /\ UNCHANGED <<dbType, listVars, workerVars, streamVars, now, queueVars, runVars, steps, hooks>>

\* steps.update, first half: fetch the current step and build the updates.
StepsUpdateRead(c, runId, stepId, status) ==
  /\ ecall[c].pc = "idle"
  /\ IF ~StepFound(runId, stepId)
     THEN EntityReturn(c, "steps.update", stepId, runId, "none", "404", NoEntity)
     ELSE EntityGoto(c, "update", "steps.update", stepId, runId, "none",
                     [status |-> status,
                      startedAt |-> IF status = "running" /\ steps[stepId].startedAt = NULL
                                    THEN now ELSE NULL,
                      completedAt |-> IF status \in {"completed", "failed"}
                                      THEN now ELSE NULL],
                     NoEntity)
  /\ UNCHANGED <<dbType, listVars, workerVars, streamVars, now, queueVars, runVars, steps, hooks>>

\* steps.update, second half: updateAndReturn on the steps table.
StepsUpdateWrite(c) ==
  /\ ecall[c].pc = "update"
  /\ LET call == ecall[c]
         matched == StepFound(call.runId, call.id)
         row == [runId |-> call.runId] @@ ApplyUpdates(steps[call.id], call.updates)
     IN /\ steps' = IF matched THEN [steps EXCEPT ![call.id] = row] ELSE steps
        /\ IF dbType = "mysql"
           THEN EntityGoto(c, "select", call.op, call.id, call.runId, "none",
                           NoUpdates, NoEntity)
           ELSE EntityReturn(c, call.op, call.id, call.runId, "none",
                             IF matched THEN "ok" ELSE "404",
                             IF matched THEN row ELSE NoEntity)
  /\ UNCHANGED <<dbType, listVars, workerVars, streamVars, now, queueVars, runVars, hooks>>

\* compact(undefined): util.js is not part of the sources; the call either
\* returns an entity without fields or throws a TypeError.
CompactUndefined == {"ok", "TypeError"}

\* hooks.get: SELECT by hookId, the result goes to compact() unchecked.
HooksGet(c, hookId) ==
  /\ ecall[c].pc = "idle"
  /\ IF hookId \in DOMAIN hooks
     THEN EntityReturn(c, "hooks.get", hookId, 0, "none", "ok", hooks[hookId])
     ELSE \E ret \in CompactUndefined :
            EntityReturn(c, "hooks.get", hookId, 0, "none", ret, NoEntity)
  /\ UNCHANGED <<dbType, listVars, workerVars, streamVars, now, queueVars, runVars, steps, hooks>>

HooksWithToken(token) == {h \in DOMAIN hooks : hooks[h].token = token}

HooksGetByToken(c, token) ==
  /\ ecall[c].pc = "idle"
  /\ LET found == HooksWithToken(token)
     IN IF found = {}
        THEN EntityReturn(c, "hooks.getByToken", 0, 0, token, "404", NoEntity)
        ELSE EntityReturn(c, "hooks.getByToken", Min(found), 0, token, "ok",
                          hooks[Min(found)])
  /\ UNCHANGED <<dbType, listVars, workerVars, streamVars, now, queueVars, runVars, steps, hooks>>

Deleted(table, id) == [k \in DOMAIN table \ {id} |-> table[k]]

\* hooks.dispose: DELETE ... RETURNING, or on MySQL the SELECT before DELETE.
HooksDispose(c, hookId) ==
  /\ ecall[c].pc = "idle"
  /\ IF hookId \notin DOMAIN hooks
     THEN /\ EntityReturn(c, "hooks.dispose", hookId, 0, "none", "404", NoEntity)
          /\ hooks' = hooks
     ELSE IF dbType = "mysql"
          THEN /\ EntityGoto(c, "delete", "hooks.dispose", hookId, 0, "none",
                             NoUpdates, hooks[hookId])
               /\ hooks' = hooks
          ELSE /\ EntityReturn(c, "hooks.dispose", hookId, 0, "none", "ok", hooks[hookId])
               /\ hooks' = Deleted(hooks, hookId)
  /\ UNCHANGED <<dbType, listVars, workerVars, streamVars, now, queueVars, runVars, steps>>

\* MySQL: the DELETE by hookId; the row selected before is returned.
HooksDisposeDelete(c) ==
  /\ ecall[c].pc = "delete"
  /\ hooks' = Deleted(hooks, ecall[c].id)
  /\ EntityReturn(c, "hooks.dispose", ecall[c].id, 0, "none", "ok", ecall[c].row)
  /\ UNCHANGED <<dbType, listVars, workerVars, streamVars, now, queueVars, runVars, steps>>

\* runs.get: SELECT by runId.
RunsGet(c, id) ==
  /\ rcall[c].pc = "idle"
  /\ rcall' = [rcall EXCEPT ![c] =
                 [pc |-> "idle", op |-> "get", id |-> id, updates |-> NoUpdates,
                  matched |-> FALSE,
                  ret |-> IF id \in DOMAIN runs THEN "ok" ELSE "404",
                  row |-> IF id \in DOMAIN runs THEN runs[id] ELSE NoRow]]
  /\ UNCHANGED <<dbType, listVars, workerVars, streamVars, now, queueVars, createArgs, entityVars, runs, nextRunId, everRunning>>

InitEntitiesIdle ==
  /\ steps = <<>>
  /\ hooks = <<>>
  /\ ecall = [c \in Callers |-> IdleEntityCall]

----------------------------------------------------------------------------
(* polling streaming: one stream, one process *)

Readers == 1 .. MaxReaders
Ticks == 1 .. MaxTicks
StartIndexes == 0 .. MaxStartIndex
\* byteLength of a written chunk
ChunkSizes == {1}
NoReader == [pc |-> "none", startIndex |-> 0, midStream |-> FALSE, offset |-> 0,
             lastChunkId |-> 0, buffer |-> <<>>, fetched |-> 0, closed |-> FALSE,
             cancelled |-> FALSE, delivered |-> <<>>]
IdleTick == [pc |-> "idle", from |-> 0, to |-> 0]

\* The state shared by the listeners and the timer of one process.
Shared == [rd |-> readers, polling |-> pollingIntervals, lastSeen |-> lastSeenChunks]

stopPolling(st) ==
  IF st.polling THEN [st EXCEPT !.polling = FALSE, !.lastSeen = 0] ELSE st

startPolling(st) == [st EXCEPT !.polling = TRUE]

\* enqueue without the test against lastChunkId.
enqueueUnordered(st, r, id) ==
  LET x == st.rd[r]
      msg == streams[id]
  IN IF x.closed THEN st
     ELSE IF x.offset > 0 THEN [st EXCEPT !.rd[r].offset = @ - 1]
     ELSE IF x.cancelled /\ (msg.len > 0 \/ msg.eof)
          THEN [st EXCEPT !.rd[r].pc = "failed"]
     ELSE LET d == IF msg.len > 0
                   THEN [st EXCEPT !.rd[r].delivered = Append(@, id)] ELSE st
              e == IF msg.eof
                   THEN stopPolling([d EXCEPT !.rd[r].closed = TRUE]) ELSE d
          IN [e EXCEPT !.rd[r].lastChunkId = id]

\* enqueue(msg) of reader r for the chunk with the given id.  controller.enqueue
\* and controller.close throw on a stream that has been cancelled.
enqueue(st, r, id) ==
  LET x == st.rd[r]
      msg == streams[id]
  IN IF x.closed \/ x.lastChunkId >= id THEN st
     ELSE IF x.offset > 0 THEN [st EXCEPT !.rd[r].offset = @ - 1]
     ELSE IF x.cancelled /\ (msg.len > 0 \/ msg.eof)
          THEN [st EXCEPT !.rd[r].pc = "failed"]
     ELSE LET d == IF msg.len > 0
                   THEN [st EXCEPT !.rd[r].delivered = Append(@, id)] ELSE st
              e == IF msg.eof
                   THEN stopPolling([d EXCEPT !.rd[r].closed = TRUE]) ELSE d
          IN [e EXCEPT !.rd[r].lastChunkId = id]

onData(st, r, id) ==
  IF st.rd[r].pc \in {"fetch", "fetched"}
  THEN [st EXCEPT !.rd[r].buffer = Append(@, id)]
  ELSE enqueue(st, r, id)

\* events.emit: the listeners ls are called in subscription order.
RECURSIVE Emit(_, _, _)
Emit(st, ls, id) ==
  IF ls = <<>> THEN st ELSE Emit(onData(st, Head(ls), id), Tail(ls), id)

\* The for loop of the timer callback over the rows from+1 .. to.
RECURSIVE EmitNewChunks(_, _, _)
EmitNewChunks(st, from, to) ==
  IF from >= to THEN st
  ELSE LET id == from + 1
           emitted == [Emit(st, listeners, id) EXCEPT !.lastSeen = id]
       IN EmitNewChunks(IF streams[id].eof THEN stopPolling(emitted) ELSE emitted,
                        id, to)

\* The drain of the buffer by start(); an exception ends it.
RECURSIVE Drain(_, _, _)
Drain(st, r, buf) ==
  IF buf = <<>> \/ st.rd[r].pc = "failed" THEN st
  ELSE Drain(enqueue(st, r, Head(buf)), r, Tail(buf))

SetShared(st) ==
  /\ readers' = st.rd
  /\ pollingIntervals' = st.polling
  /\ lastSeenChunks' = st.lastSeen

\* writeToStream: the INSERT of a chunk with eof=false.
WriteToStream(len) ==
  /\ writer = "idle"
  /\ Len(streams) < MaxChunks
  /\ streams' = Append(streams, [eof |-> FALSE, len |-> len])
  /\ writer' = "inserted"
  /\ UNCHANGED <<dbType, listVars, workerVars, now, queueVars, runVars, entityVars, pollingIntervals,
                 lastSeenChunks, listeners, readers, ticks>>

\* writeToStream after the INSERT: start polling if there are listeners.
WriteStartPolling ==
  /\ writer = "inserted"
  /\ writer' = "idle"
  /\ pollingIntervals' = (pollingIntervals \/ listeners # <<>>)
  /\ UNCHANGED <<dbType, listVars, workerVars, now, queueVars, runVars, entityVars, streams,
                 lastSeenChunks, listeners, readers, ticks>>

\* closeStream: the INSERT of an empty chunk with eof=true.
CloseStream ==
  /\ writer = "idle"
  /\ Len(streams) < MaxChunks
  /\ streams' = Append(streams, [eof |-> TRUE, len |-> 0])
  /\ UNCHANGED <<dbType, listVars, workerVars, now, queueVars, runVars, entityVars, writer, pollingIntervals,
                 lastSeenChunks, listeners, readers, ticks>>

\* Some chunk has been written and no EOF marker yet.
MidStream == streams # <<>> /\ \A i \in DOMAIN streams : ~streams[i].eof

\* readFromStream: start() up to its await; the listener is subscribed.
ReadFromStream(r, startIndex) ==
  /\ readers[r].pc = "none"
  /\ \A q \in Readers : q < r => readers[q].pc # "none"
  /\ readers' = [readers EXCEPT ![r] =
                   [NoReader EXCEPT !.pc = "fetch", !.startIndex = startIndex,
                                    !.offset = startIndex, !.midStream = MidStream]]
  /\ listeners' = Append(listeners, r)
  /\ UNCHANGED <<dbType, listVars, workerVars, now, queueVars, runVars, entityVars, streams, writer,
                 pollingIntervals, lastSeenChunks, ticks>>

\* The SELECT of the existing chunks, ordered by chunkId.
ReaderFetch(r) ==
  /\ readers[r].pc = "fetch"
  /\ readers' = [readers EXCEPT ![r].pc = "fetched", ![r].fetched = Len(streams)]
  /\ UNCHANGED <<dbType, listVars, workerVars, now, queueVars, runVars, entityVars, streams, writer,
                 pollingIntervals, lastSeenChunks, listeners, ticks>>

\* start() after the fetch: the fetched rows are pushed behind the buffered
\* notifications, the buffer is drained, and polling starts unless closed.
ReaderStart(r) ==
  /\ readers[r].pc = "fetched"
  /\ LET buf == readers[r].buffer \o [i \in 1 .. readers[r].fetched |-> i]
         st0 == [Shared EXCEPT !.rd[r].buffer = <<>>, !.rd[r].fetched = 0]
         st1 == Drain(st0, r, buf)
     IN IF st1.rd[r].pc = "failed" THEN SetShared(st1)
        ELSE IF st1.rd[r].closed THEN SetShared([st1 EXCEPT !.rd[r].pc = "open"])
        ELSE SetShared([startPolling(st1) EXCEPT !.rd[r].pc = "open",
                                                  !.lastSeen = st1.rd[r].lastChunkId])
  /\ UNCHANGED <<dbType, listVars, workerVars, now, queueVars, runVars, entityVars, streams, writer,
                 listeners, ticks>>

\* cancel(): the listener is removed and the stream's polling is stopped.
ReaderCancel(r) ==
  /\ readers[r].pc \in {"fetch", "fetched", "open"}
  /\ ~readers[r].closed /\ ~readers[r].cancelled
  /\ listeners' = SelectSeq(listeners, LAMBDA l : l # r)
  /\ SetShared(stopPolling([Shared EXCEPT !.rd[r].cancelled = TRUE]))
  /\ UNCHANGED <<dbType, listVars, workerVars, now, queueVars, runVars, entityVars, streams, writer, ticks>>

\* A timer callback: lastSeenChunks is read and the new chunks are selected.
PollSelect(k) ==
  /\ pollingIntervals
  /\ ticks[k].pc = "idle"
  /\ \A j \in Ticks : j < k => ticks[j].pc # "idle"
  /\ lastSeenChunks < Len(streams)
  /\ ticks' = [ticks EXCEPT ![k] =
                 [pc |-> "emit", from |-> lastSeenChunks,
                  to |-> IF Len(streams) - lastSeenChunks <= PollChunkLimit
                         THEN Len(streams) ELSE lastSeenChunks + PollChunkLimit]]
  /\ UNCHANGED <<dbType, listVars, workerVars, now, queueVars, runVars, entityVars, streams, writer,
                 pollingIntervals, lastSeenChunks, listeners, readers>>

\* The callback after its SELECT: every new chunk is emitted.
PollEmit(k) ==
  /\ ticks[k].pc = "emit"
  /\ SetShared(EmitNewChunks(Shared, ticks[k].from, ticks[k].to))
  /\ ticks' = [ticks EXCEPT ![k] = IdleTick]
  /\ UNCHANGED <<dbType, listVars, workerVars, now, queueVars, runVars, entityVars, streams, writer, listeners>>

-----------------------------------------------------------------------------
(* Listing with pagination: runs.list, steps.list, hooks.list, events.list *)

SortOrders == {"asc", "desc"}
NoList == [op |-> "none", limit |-> 0, sortOrder |-> "none", status |-> "none",
           runId |-> 0, first |-> NULL, passed |-> NULL, data |-> <<>>,
           hasMore |-> FALSE, cursor |-> NULL, pages |-> <<>>, cursors |-> <<>>,
           mores |-> <<>>]

\* lt(id, cursor) under desc(id), gt(id, cursor) under ascending order;
\* map(cursor, ...) leaves the condition out when no cursor is passed.
AfterOrAt(id, cursor, sortOrder) ==
  \/ cursor = NULL
  \/ IF sortOrder = "desc" THEN id <= cursor ELSE id >= cursor
After(id, cursor, sortOrder) ==
  \/ cursor = NULL
  \/ IF sortOrder = "desc" THEN id < cursor ELSE id > cursor

\* .orderBy(order.by).limit(n) over the rows with the ids of S.
RECURSIVE OrderByLimit(_, _, _)
OrderByLimit(S, sortOrder, n) ==
  IF n = 0 \/ S = {} THEN <<>>
  ELSE LET first == CHOOSE i \in S :
                      \A j \in S : IF sortOrder = "desc" THEN j <= i ELSE i <= j
       IN <<first>> \o OrderByLimit(S \ {first}, sortOrder, n - 1)

\* A page that leaves hasMore false whenever the page is full.
ListPageExact(matching, cursor, limit, sortOrder) ==
  LET all == OrderByLimit({i \in matching : After(i, cursor, sortOrder)},
                          sortOrder, limit + 1)
      values == SubSeq(all, 1, IF Len(all) > limit THEN limit ELSE Len(all))
  IN [data |-> values,
      hasMore |-> Len(all) > limit + 1,
      cursor |-> IF values = <<>> THEN NULL ELSE values[Len(values)]]
\* The page a list call returns: limit + 1 rows are fetched, the first limit
\* of them are the page, and the cursor is the id of the last row of the page.
ListPage(matching, cursor, limit, sortOrder) ==
  LET all == OrderByLimit({i \in matching : After(i, cursor, sortOrder)},
                          sortOrder, limit + 1)
      values == SubSeq(all, 1, IF Len(all) > limit THEN limit ELSE Len(all))
  IN [data |-> values,
      hasMore |-> Len(all) > limit,
      cursor |-> IF values = <<>> THEN NULL ELSE values[Len(values)]]

\* The ids of the rows that pass the eq(...) conditions of a list call.
Matching(op, status, runId) ==
  CASE op = "runs.list" ->
         {r \in DOMAIN runs : status = "none" \/ runs[r].status = status}
    [] op = "steps.list" -> {i \in DOMAIN steps : steps[i].runId = runId}
    [] op = "hooks.list" -> {h \in DOMAIN hooks : runId = 0 \/ hooks[h].runId = runId}
    [] op = "events.list" -> {e \in DOMAIN events : events[e].runId = runId}
    [] OTHER -> {}

\* Caller c makes one list call.  A call that passes the cursor of the page
\* the caller got last, with the same parameters, goes on with that listing.
List(c, op, limit, sortOrder, status, runId, cursor) ==
  LET page == ListPage(Matching(op, status, runId), cursor, limit, sortOrder)
      prev == lcall[c]
      goesOn == /\ cursor # NULL
                /\ prev.op = op /\ prev.limit = limit /\ prev.sortOrder = sortOrder
                /\ prev.status = status /\ prev.runId = runId
                /\ prev.hasMore /\ prev.cursor = cursor
  IN /\ lcall' = [lcall EXCEPT ![c] =
                    [op |-> op, limit |-> limit, sortOrder |-> sortOrder,
                     status |-> status, runId |-> runId,
                     first |-> IF goesOn THEN prev.first ELSE cursor,
                     passed |-> cursor, data |-> page.data,
                     hasMore |-> page.hasMore, cursor |-> page.cursor,
                     pages |-> IF goesOn THEN prev.pages \o page.data ELSE page.data,
                     cursors |-> IF goesOn THEN Append(prev.cursors, page.cursor)
                                 ELSE <<page.cursor>>,
                     mores |-> IF goesOn THEN Append(prev.mores, page.hasMore)
                               ELSE <<page.hasMore>>]]
     /\ UNCHANGED <<dbType, workerVars, now, queueVars, runVars, entityVars, streamVars, events>>

RunsList(c, limit, status, cursor) ==
  List(c, "runs.list", limit, "desc", status, 0, cursor)

StepsList(c, limit, runId, cursor) ==
  List(c, "steps.list", limit, "desc", "none", runId, cursor)

HooksList(c, limit, runId, cursor) ==
  List(c, "hooks.list", limit, "desc", "none", runId, cursor)

EventsList(c, limit, sortOrder, runId, cursor) ==
  List(c, "events.list", limit, sortOrder, "none", runId, cursor)

InitListIdle ==
  /\ events = <<>>
  /\ lcall = [c \in Callers |-> NoList]

InitStreamIdle ==
  /\ streams = <<>>
  /\ writer = "idle"
  /\ pollingIntervals = FALSE
  /\ lastSeenChunks = 0
  /\ listeners = <<>>
  /\ readers = [r \in Readers |-> NoReader]
  /\ ticks = [k \in Ticks |-> IdleTick]

InitRunsIdle ==
  /\ runs = <<>>
  /\ nextRunId = 1
  /\ rcall = [c \in Clients |-> IdleClient]
  /\ everRunning = <<>>
  /\ createArgs = <<>>

InitQueueIdle ==
  /\ jobs = <<>>
  /\ nextMessageId = 1
  /\ qcall = [c \in QCalls |-> IdleCall]
  /\ tasks = [t \in Tasks |-> FreeTask]
  /\ handler = [j \in JobIds |-> "succeeds"]
  /\ execCount = [j \in JobIds |-> 0]
  /\ statusTrace = [j \in JobIds |-> <<>>]
  /\ overlap = [j \in JobIds |-> FALSE]

InitRuns ==
  /\ dbType \in DatabaseTypes
  /\ now = 0
  /\ InitQueueIdle
  /\ InitRunsIdle
  /\ InitEntitiesIdle
  /\ InitStreamIdle
  /\ InitListIdle
  /\ InitWorkerIdle

NextRuns ==
  \/ \E c \in Clients : RunsCreate(c, PlainRunData)
  \/ \E c \in Clients, id \in RunIds : RunsCancel(c, id)
  \/ \E c \in Clients, id \in RunIds : RunsPause(c, id)
  \/ \E c \in Clients, id \in RunIds : RunsResume(c, id)
  \/ \E c \in Clients, id \in RunIds, st \in RunStatuses : RunsUpdateRead(c, id, st)
  \/ \E c \in Clients : RunsUpdateWrite(c)
  \/ \E c \in Clients : RunsSelect(c)
  \/ TickRuns

SpecRuns == InitRuns /\ [][NextRuns]_vars

\* The polling streamer serves mysql and sqlite alike and never reads dbType.
InitStream ==
  /\ dbType = "mysql"
  /\ now = 0
  /\ InitQueueIdle
  /\ InitRunsIdle
  /\ InitEntitiesIdle
  /\ InitStreamIdle
  /\ InitListIdle
  /\ InitWorkerIdle

\* Readers without startIndex that are never cancelled; timer callbacks may
\* overlap.
NextStream ==
  \/ \E len \in ChunkSizes : WriteToStream(len)
  \/ WriteStartPolling
  \/ CloseStream
  \/ \E r \in Readers : ReadFromStream(r, 0)
  \/ \E r \in Readers : ReaderFetch(r)
  \/ \E r \in Readers : ReaderStart(r)
  \/ \E k \in Ticks : PollSelect(k)
  \/ \E k \in Ticks : PollEmit(k)

SpecStream == InitStream /\ [][NextStream]_vars

\* Readers with a startIndex; one timer callback at a time.
NextStreamIndex ==
  \/ \E len \in ChunkSizes : WriteToStream(len)
  \/ WriteStartPolling
  \/ CloseStream
  \/ \E r \in Readers, i \in StartIndexes : ReadFromStream(r, i)
  \/ \E r \in Readers : ReaderFetch(r)
  \/ \E r \in Readers : ReaderStart(r)
  \/ PollSelect(1)
  \/ PollEmit(1)

SpecStreamIndex == InitStream /\ [][NextStreamIndex]_vars

FairSpecStreamIndex ==
  /\ SpecStreamIndex
  /\ WF_vars(WriteStartPolling)
  /\ \A r \in Readers : WF_vars(ReaderFetch(r)) /\ WF_vars(ReaderStart(r))
  /\ WF_vars(PollSelect(1))
  /\ WF_vars(PollEmit(1))

\* Readers that may be cancelled; one timer callback at a time.
NextStreamCancel ==
  \/ \E len \in ChunkSizes : WriteToStream(len)
  \/ WriteStartPolling
  \/ CloseStream
  \/ \E r \in Readers : ReadFromStream(r, 0)
  \/ \E r \in Readers : ReaderFetch(r)
  \/ \E r \in Readers : ReaderStart(r)
  \/ \E r \in Readers : ReaderCancel(r)
  \/ PollSelect(1)
  \/ PollEmit(1)

SpecStreamCancel == InitStream /\ [][NextStreamCancel]_vars

\* The storage called by sequential callers: runs, steps and hooks.
NextStorage ==
  \/ \E c \in Callers : RunsCreate(c, PlainRunData)
  \/ \E c \in Callers, id \in RunIds : RunsGet(c, id)
  \/ \E c \in Callers, id \in RunIds : RunsCancel(c, id)
  \/ \E c \in Callers, id \in RunIds : RunsPause(c, id)
  \/ \E c \in Callers, id \in RunIds : RunsResume(c, id)
  \/ \E c \in Callers, id \in RunIds, st \in RunStatuses : RunsUpdateRead(c, id, st)
  \/ \E c \in Callers : RunsUpdateWrite(c)
  \/ \E c \in Callers : RunsSelect(c)
  \/ \E c \in Callers, r \in RunIds, id \in StepIds : StepsCreate(c, r, id)
  \/ \E c \in Callers, r \in RunIds, id \in StepIds : StepsGet(c, r, id)
  \/ \E c \in Callers, r \in RunIds, id \in StepIds, st \in StepStatuses :
       StepsUpdateRead(c, r, id, st)
  \/ \E c \in Callers : StepsUpdateWrite(c)
  \/ \E c \in Callers, r \in RunIds, id \in HookIds, t \in Tokens : HooksCreate(c, r, id, t)
  \/ \E c \in Callers, id \in HookIds : HooksGet(c, id)
  \/ \E c \in Callers, t \in Tokens : HooksGetByToken(c, t)
  \/ \E c \in Callers, id \in HookIds : HooksDispose(c, id)
  \/ \E c \in Callers : HooksDisposeDelete(c)
  \/ \E c \in Callers : EntitySelect(c)

SpecStorage == InitRuns /\ [][NextStorage]_vars


InitQueue ==
  /\ dbType \in DatabaseTypes
  /\ now = 0
  /\ jobs = <<>>
  /\ nextMessageId = 1
  /\ qcall = [c \in QCalls |-> IdleCall]
  /\ tasks = [t \in Tasks |-> FreeTask]
  /\ handler \in [JobIds -> HandlerScripts]
  /\ execCount = [j \in JobIds |-> 0]
  /\ statusTrace = [j \in JobIds |-> <<>>]
  /\ overlap = [j \in JobIds |-> FALSE]
  /\ InitRunsIdle
  /\ InitEntitiesIdle
  /\ InitStreamIdle
  /\ InitListIdle
  /\ InitWorkerStarted

NextEnqueue ==
  \/ \E c \in QCalls, name \in QueueNames, k \in Keys \cup {NoKey} : QueueCheck(c, name, k)
  \/ \E c \in QCalls : QueueInsert(c)

SpecEnqueue == InitQueue /\ [][NextEnqueue]_vars

NextQueue ==
  \/ \E c \in WorkerCalls, name \in QueueNames, k \in Keys \cup {NoKey} : QueueCheck(c, name, k)
  \/ \E c \in WorkerCalls : QueueInsert(c)
  \/ \E name \in QueueNames : PollQueue(name)
  \/ \E t \in Tasks : Lease(t)
  \/ \E t \in Tasks : LeaseSelect(t)
  \/ \E t \in Tasks : Invoke(t)
  \/ \E t \in Tasks : WriteCompleted(t)
  \/ \E t \in Tasks : WriteFailure(t)
  \/ \E t \in Tasks : WorkerCrash(t)
  \/ TickQueue

SpecQueue == InitQueue /\ [][NextQueue]_vars

FairSpecQueue ==
  /\ SpecQueue
  /\ WF_vars(\E name \in QueueNames : PollQueue(name))
  /\ \A t \in Tasks :
       /\ WF_vars(Lease(t))
       /\ WF_vars(LeaseSelect(t))
       /\ WF_vars(Invoke(t))
       /\ WF_vars(WriteCompleted(t))
       /\ WF_vars(WriteFailure(t))
  /\ WF_vars(TickQueue)

----------------------------------------------------------------------------
(* Properties of the queue *)

IsPrefix(s, t) == Len(s) <= Len(t) /\ \A i \in 1 .. Len(s) : s[i] = t[i]

\* C1: lease mutual exclusion.  The Executor is only ever invoked by a worker
\* whose conditional lease UPDATE matched the row, and no two workers hold a
\* lease of the same job at the same time; a worker whose UPDATE matched
\* nothing does not go on to handle (and write) the job.  On both back-ends.
C1_LeaseMutualExclusion ==
  /\ \A t \in Tasks : Holding(t) => tasks[t].granted
  /\ \A t1, t2 \in Tasks :
       (t1 # t2 /\ Holding(t1) /\ Holding(t2)) => tasks[t1].id # tasks[t2].id

\* C2: lease stealing.  A job that is 'processing' with a lockedUntil earlier
\* than now is eventually leased again and, with a handler that succeeds,
\* eventually completed.
C2_LeaseStealing ==
  \A j \in JobIds :
    [](( /\ j \in DOMAIN jobs
         /\ jobs[j].status = "processing"
         /\ jobs[j].lockedUntil # NULL
         /\ jobs[j].lockedUntil < now
         /\ handler[j] = "succeeds" )
       => <>(j \in DOMAIN jobs /\ jobs[j].status = "completed"))

RowsWithKey(k) == {j \in DOMAIN jobs : jobs[j].idempotencyKey = k}

\* The queue() calls with key k that have begun ran one after the other.
Sequential(k) ==
  \A c1, c2 \in QCalls :
    (c1 # c2 /\ qcall[c1].pc # "idle" /\ qcall[c2].pc # "idle"
       /\ qcall[c1].key = k /\ qcall[c2].key = k)
    => (c1 \in qcall[c2].after \/ c2 \in qcall[c1].after)

\* C3: queue idempotency.  When the queue() calls with the same idempotency
\* key K are issued one after the other has returned, all of them return the
\* same messageId and exactly one job row with key K exists.
C3_QueueIdempotency ==
  \A k \in Keys :
    Sequential(k) =>
      /\ \A c1, c2 \in QCalls :
           (qcall[c1].pc = "done" /\ qcall[c2].pc = "done"
              /\ qcall[c1].key = k /\ qcall[c2].key = k)
           => qcall[c1].result = qcall[c2].result
      /\ (\E c \in QCalls : qcall[c].pc = "done" /\ qcall[c].key = k)
           => Cardinality(RowsWithKey(k)) = 1

C3_Witness ==
  \E c1, c2 \in QCalls :
    /\ c1 # c2
    /\ qcall[c1].pc = "done" /\ qcall[c2].pc = "done"
    /\ qcall[c1].key \in Keys /\ qcall[c2].key = qcall[c1].key
    /\ c1 \in qcall[c2].after
    /\ qcall[c2].result = qcall[c1].result
    /\ qcall[c2].messageId # qcall[c2].result
    /\ Cardinality(RowsWithKey(qcall[c1].key)) = 1

RetryLadder ==
  <<"pending", "processing", "pending", "processing", "pending", "processing", "completed">>

\* C4: retry to success.  A job whose handler throws on its first two
\* attempts and succeeds on the third, and that no poll selected while it was
\* still being handled, passes pending -> processing -> pending -> processing
\* -> pending -> processing -> completed and ends with status=completed,
\* attempts=3 and lockedUntil=NULL.
C4_RetryToSuccess ==
  \A j \in DOMAIN jobs :
    (handler[j] = "throwsTwice" /\ ~overlap[j]) =>
      /\ IsPrefix(statusTrace[j], RetryLadder)
      /\ jobs[j].status = "completed" =>
           /\ statusTrace[j] = RetryLadder
           /\ jobs[j].attempts = 3
           /\ jobs[j].lockedUntil = NULL
           /\ execCount[j] = 3

C4_Witness ==
  \E j \in DOMAIN jobs :
    /\ handler[j] = "throwsTwice" /\ ~overlap[j]
    /\ jobs[j].status = "completed"
    /\ statusTrace[j] = RetryLadder

\* C5: exhaustion.  A job whose handler always throws is handed to the
\* Executor exactly maxAttempts (3) times and then has status=failed,
\* attempts=3, lockedUntil=NULL and an error text; it is never marked failed
\* before the third failure.
C5_Exhaustion ==
  \A j \in DOMAIN jobs :
    handler[j] = "alwaysThrows" =>
      /\ execCount[j] <= maxAttempts
      /\ jobs[j].status = "failed" =>
           /\ execCount[j] = maxAttempts
           /\ jobs[j].attempts = 3
           /\ jobs[j].lockedUntil = NULL
           /\ jobs[j].error

\* min(1000 * 2^a, 60000)
Backoff(a) == IF 1000 * (2 ^ a) <= 60000 THEN 1000 * (2 ^ a) ELSE 60000

\* The retry write of the catch block, by task t.
RetryWrite(t) == WriteFailure(t) /\ tasks[t].attempts + 1 < tasks[t].maxAttempts

----------------------------------------------------------------------------
(* Properties of the runs storage *)

\* pending -> running -> (paused <-> running) -> completed | failed | cancelled,
\* with cancel accepted from every non-terminal state.
AllowedTransitions ==
  {<<"pending", "running">>, <<"running", "paused">>, <<"paused", "running">>}
    \cup {<<"running", s>> : s \in TerminalStatuses}
    \cup {<<"pending", "cancelled">>, <<"paused", "cancelled">>}

\* C7: run state machine.  Every change of a run's status follows
\* pending -> running -> (paused <-> running) -> completed | failed | cancelled:
\* a run becomes paused only from running, and the status of a completed,
\* failed or cancelled run never changes.
C7_RunStateMachine ==
  [][\A r \in DOMAIN runs :
       runs'[r].status # runs[r].status =>
         <<runs[r].status, runs'[r].status>> \in AllowedTransitions]_vars

\* C8: startedAt is non-null if and only if the run has had status=running.
C8_StartedAtIffEverRunning ==
  \A r \in DOMAIN runs : (runs[r].startedAt # NULL) <=> everRunning[r]

\* C9: startedAt is set exactly once: once it is non-null, no later operation
\* changes its value, also when two update(id, {status:'running'}) calls
\* interleave.
C9_StartedAtSetOnce ==
  [][\A r \in DOMAIN runs :
       runs[r].startedAt # NULL => runs'[r].startedAt = runs[r].startedAt]_vars

\* C10: completedAt is non-null if and only if the run's status is completed,
\* failed or cancelled.
C10_CompletedAtIffTerminal ==
  \A r \in DOMAIN runs :
    (runs[r].completedAt # NULL) <=> (runs[r].status \in TerminalStatuses)

\* C11: completedAt of a run is set on the first transition to a terminal
\* state and never changes afterwards: no later update, cancel, pause or
\* resume overwrites or clears a non-null completedAt.
C11_CompletedAtNeverChanges ==
  [][\A r \in DOMAIN runs :
       runs[r].completedAt # NULL => runs'[r].completedAt = runs[r].completedAt]_vars

\* The step in which client c's resume(id) call returns to its caller.
ResumeReturns(c, id) ==
  /\ rcall'[c] # rcall[c]
  /\ rcall'[c].pc = "idle" /\ rcall'[c].op = "resume" /\ rcall'[c].id = id

\* C19: runs.resume(id) succeeds only when the run's current status is paused,
\* and the result then has status=running; for an existing run in any other
\* status the UPDATE leaves the run unchanged and the call fails with the 404
\* 'paused run not found' error.  On both back-ends.
C19_ResumeOnlyFromPaused ==
  [][\A c \in Clients, id \in DOMAIN runs :
       /\ (RunsResume(c, id) /\ runs[id].status # "paused") =>
            /\ runs' = runs
            /\ rcall'[c].pc = "idle" => rcall'[c].ret = "404"
       /\ (ResumeReturns(c, id) /\ rcall'[c].ret = "ok") =>
            rcall'[c].row.status = "running"]_vars

----------------------------------------------------------------------------
(* Properties of the storage as a whole *)

MissingRunOps == {"get", "update", "cancel", "pause", "resume"}
MissingEntityOps == {"steps.get", "steps.update", "hooks.get", "hooks.getByToken",
                     "hooks.dispose"}

\* The entity the steps.* or hooks.* call is about has no row.
EntityMissing(call) ==
  CASE call.op \in {"steps.get", "steps.update"} -> ~StepFound(call.runId, call.id)
    [] call.op \in {"hooks.get", "hooks.dispose"} -> call.id \notin DOMAIN hooks
    [] call.op = "hooks.getByToken" -> HooksWithToken(call.token) = {}
    [] OTHER -> FALSE

TablesUnchanged == runs' = runs /\ steps' = steps /\ hooks' = hooks

\* C20: missing entity.  runs.get, runs.update, runs.cancel, runs.pause,
\* runs.resume, steps.get, steps.update, hooks.get, hooks.getByToken and
\* hooks.dispose called with an id (or token) that has no row fail with a 404
\* error, and no step of such a call creates or modifies a row of any table.
C20_MissingEntity ==
  [][/\ \A c \in Callers :
          (/\ rcall'[c] # rcall[c]
           /\ rcall'[c].op \in MissingRunOps
           /\ rcall'[c].id \notin DOMAIN runs)
          => /\ TablesUnchanged
             /\ rcall'[c].pc = "idle" => rcall'[c].ret = "404"
     /\ \A c \in Callers :
          (/\ ecall'[c] # ecall[c]
           /\ ecall'[c].op \in MissingEntityOps
           /\ EntityMissing(ecall'[c]))
          => /\ TablesUnchanged
             /\ ecall'[c].pc = "idle" => ecall'[c].ret = "404"]_vars

----------------------------------------------------------------------------
(* Properties of the streams *)

EofIds == {i \in DOMAIN streams : streams[i].eof}

\* The chunks written before the first EOF marker.
BeforeEof == {i \in DOMAIN streams : \A e \in EofIds : i < e}

\* K writeToStream calls, followed by at most one closeStream.
WritesThenClose == \A e \in EofIds : e = Len(streams)

\* The ids of the non-empty chunks written before the first EOF marker, in
\* write order.
WrittenData ==
  SelectSeq([i \in DOMAIN streams |-> i],
            LAMBDA i : i \in BeforeEof /\ streams[i].len > 0)

\* C12: stream ordering.  For K writeToStream calls followed by closeStream,
\* issued by one process, what a reader without startIndex has received is
\* at every moment a prefix of the K chunks in write order, and when the
\* reader terminates it has received exactly those chunks, wherever in the
\* sequence it attached.
C12_StreamOrdering ==
  WritesThenClose =>
    \A r \in Readers :
      (readers[r].pc # "none" /\ readers[r].startIndex = 0) =>
        /\ IsPrefix(readers[r].delivered, WrittenData)
        /\ readers[r].closed => readers[r].delivered = WrittenData

\* C13: stream restart.  A reader attached after some chunks were written and
\* before EOF receives the previously written chunks in order and then the
\* chunks written afterwards: the n-th chunk it receives is the n-th chunk of
\* the stream, so no chunk is lost between the initial fetch, the
\* notifications buffered during the fetch and the later poll ticks, and it
\* is closed only after the last of them.
C13_StreamRestart ==
  \A r \in Readers :
    (readers[r].midStream /\ readers[r].startIndex = 0) =>
      /\ Len(readers[r].delivered) <= Len(WrittenData)
      /\ \A n \in 1 .. Len(readers[r].delivered) :
           readers[r].delivered[n] = WrittenData[n]
      /\ readers[r].closed => Len(readers[r].delivered) = Len(WrittenData)

\* C14: for every reader the chunkIds of the chunks it has been delivered are
\* strictly increasing, so no chunk is delivered twice to the same reader,
\* under every interleaving of the initial fetch, the buffered notifications
\* and the poll ticks, overlapping ticks included.
C14_StrictlyIncreasing ==
  \A r \in Readers :
    \A m, n \in 1 .. Len(readers[r].delivered) :
      m < n => readers[r].delivered[m] < readers[r].delivered[n]

\* A reader that has received two chunks while two overlapping timer
\* callbacks are about to notify it of a chunk it already has.
C14_Witness ==
  \E r \in Readers :
    /\ readers[r].pc = "open"
    /\ Len(readers[r].delivered) >= 2
    /\ \A k \in Ticks :
         ticks[k].pc = "emit" /\ ticks[k].from < readers[r].lastChunkId

\* C15: every reader of a stream on which closeStream has been called
\* eventually closes, as long as the poll ticks keep firing and the reader is
\* not cancelled; for any number of readers of the stream and any startIndex.
C15_ReadersClose ==
  \A r \in Readers :
    [](( /\ readers[r].pc # "none"
         /\ EofIds # {} )
       => <>(readers[r].closed))

\* C16: writes after EOF are ignored by readers.  For every reader and every
\* startIndex, no chunk whose chunkId is greater than that of the stream's
\* first EOF marker is ever delivered.
C16_NothingAfterEof ==
  \A r \in Readers :
    \A n \in 1 .. Len(readers[r].delivered) :
      \A e \in EofIds : readers[r].delivered[n] < e

\* C17: within a streamId the chunk table holds at most one chunk with
\* eof=true, after any sequence of writeToStream and closeStream calls.
C17_AtMostOneEof == Cardinality(EofIds) <= 1

Subscribed(ls, r) == \E i \in DOMAIN ls : ls[i] = r

\* C18: reader cancellation releases resources.  The step that runs cancel()
\* unsubscribes the reader and leaves no polling timer for its stream; once
\* cancel() has run the reader stays unsubscribed, receives no further chunk,
\* and no polling timer is started on its behalf, also when cancel() happened
\* while the reader's initial fetch was still in progress.
C18_CancelReleases ==
  [][\A r \in Readers :
       /\ ReaderCancel(r) => (~pollingIntervals' /\ ~Subscribed(listeners', r))
       /\ readers[r].cancelled =>
            /\ ~Subscribed(listeners', r)
            /\ readers'[r].delivered = readers[r].delivered
            /\ ReaderStart(r) => (pollingIntervals' => pollingIntervals)]_vars

----------------------------------------------------------------------------
(* Properties of the returning-compat helpers *)

RowWriteOps == {"update", "cancel", "pause", "resume"}

\* Every column set by the updates u has the value of u in row.
CarriesUpdates(row, u) ==
  /\ u.status # "none" => row.status = u.status
  /\ u.startedAt # NULL => row.startedAt = u.startedAt
  /\ u.completedAt # NULL => row.completedAt = u.completedAt

\* C21: every write that returns a row returns the post-write state of that
\* very write.  The row returned by runs.update / cancel / pause / resume is
\* the stored row as the caller's own UPDATE left it: with RETURNING it is the
\* row stored by that step, and after the MySQL follow-up SELECT it still
\* carries every column value the caller's UPDATE set, also when another
\* writer to the run ran in between.  (steps.update goes through the same
\* updateAndReturn.)
C21_ReturnsOwnWrite ==
  [][\A c \in Clients :
       (rcall'[c] # rcall[c] /\ rcall'[c].pc = "idle" /\ rcall'[c].ret = "ok"
          /\ rcall'[c].op \in RowWriteOps)
       => IF rcall[c].pc = "select"
          THEN CarriesUpdates(rcall'[c].row, rcall[c].updates)
          ELSE rcall'[c].row = runs'[rcall'[c].id]]_vars

\* The step of caller c belongs to a create call (op) whose id already had a
\* row in table when its INSERT ran.
DuplicateCreate(c, op, table) ==
  /\ ecall'[c] # ecall[c]
  /\ ecall'[c].op = op
  /\ \/ ecall[c].pc = "idle" /\ ecall'[c].id \in DOMAIN table
     \/ ecall[c].pc = "caught1062"

\* C22: hooks.create with a hookId that already exists fails with 409 and
\* leaves the existing hook row unchanged, with RETURNING and with the MySQL
\* duplicate-key read-back alike.
C22_HooksCreateConflict ==
  [][\A c \in Callers :
       DuplicateCreate(c, "hooks.create", hooks) =>
         /\ hooks' = hooks
         /\ ecall'[c].pc = "idle" => ecall'[c].ret = "409"]_vars

\* C23: steps.create is idempotent by stepId.  A steps.create with a stepId
\* that already exists leaves the stored step unchanged and returns the
\* existing step; 409 is raised only when no row with that stepId exists after
\* the insert attempt.  On both back-end strategies.
C23_StepsCreateIdempotent ==
  [][\A c \in Callers :
       /\ DuplicateCreate(c, "steps.create", steps) =>
            /\ steps' = steps
            /\ ecall'[c].pc = "idle" =>
                 /\ ecall'[c].ret = "ok"
                 /\ ecall'[c].row = steps[ecall'[c].id]
       /\ (ecall'[c] # ecall[c] /\ ecall'[c].op = "steps.create"
             /\ ecall'[c].pc = "idle" /\ ecall'[c].ret = "409")
          => ecall'[c].id \notin DOMAIN steps']_vars


-----------------------------------------------------------------------------
(* Creating and reading back runs *)

\* A run created before the behaviour starts has an identifier below the
\* ones the factory hands out afterwards.
EarlierRunIds == {0}

InitRoundTrip ==
  /\ dbType \in DatabaseTypes
  /\ now = 0
  /\ InitQueueIdle
  /\ InitEntitiesIdle
  /\ InitStreamIdle
  /\ InitListIdle
  /\ InitWorkerIdle
  /\ nextRunId = 1
  /\ rcall = [c \in Clients |-> IdleClient]
  /\ \/ runs = <<>> /\ everRunning = <<>> /\ createArgs = <<>>
     \/ \E data \in RunData :
          /\ runs = [r \in EarlierRunIds |-> InsertedRun(data)]
          /\ everRunning = [r \in EarlierRunIds |-> FALSE]
          /\ createArgs = [r \in EarlierRunIds |-> data]

NextRoundTrip ==
  \/ \E c \in Clients, data \in RunData : RunsCreate(c, data)
  \/ \E c \in Clients, id \in EarlierRunIds \cup RunIds : RunsGet(c, id)

SpecRoundTrip == InitRoundTrip /\ [][NextRoundTrip]_vars

Created(c) ==
  /\ rcall'[c] # rcall[c]
  /\ rcall'[c].op = "create"

GotRun(c) ==
  /\ rcall'[c].op = "get"
  /\ rcall'[c].ret = "ok"
  /\ rcall'[c].id \in DOMAIN createArgs

\* Everything of claim C24 but the input of the run that is read back.
CreateGetRest(c) ==
  /\ Created(c) =>
       /\ rcall'[c].ret = "ok"
       /\ rcall'[c].id \notin DOMAIN runs
       /\ Head(RunIdText(rcall'[c].id)) = "wrun_"
       /\ rcall'[c].row.status = "pending"
       /\ \A r \in DOMAIN runs : runs'[r] = runs[r]
  /\ GotRun(c) =>
       /\ rcall'[c].row.status = "pending"
       /\ rcall'[c].row.workflowName = createArgs[rcall'[c].id].workflowName
       /\ rcall'[c].row.deploymentId = createArgs[rcall'[c].id].deploymentId

-----------------------------------------------------------------------------
(* Paging through stored items *)

Limits == 1 .. MaxLimit
ListStatuses == {"pending", "running"}

\* The tables hold n rows each, with the ids the factories handed out; tag
\* gives the status of each run and the run of each step, hook and event.
Stored(n, tag) ==
  /\ runs = [r \in 1 .. n |->
               [InsertedRun(PlainRunData) EXCEPT
                  !.status = IF tag[r] = 1 THEN "pending" ELSE "running",
                  !.startedAt = IF tag[r] = 1 THEN NULL ELSE 0]]
  /\ nextRunId = n + 1
  /\ everRunning = [r \in 1 .. n |-> tag[r] = 2]
  /\ createArgs = [r \in 1 .. n |-> PlainRunData]
  /\ steps = [i \in 1 .. n |->
                [runId |-> tag[i], status |-> "pending", startedAt |-> NULL,
                 completedAt |-> NULL]]
  /\ hooks = [h \in 1 .. n |-> [runId |-> tag[h], token |-> "tok"]]
  /\ events = [e \in 1 .. n |-> [runId |-> tag[e]]]

\* The list calls never read dbType.
InitList ==
  /\ dbType = "sqlite"
  /\ now = 0
  /\ InitQueueIdle
  /\ InitStreamIdle
  /\ rcall = [c \in Clients |-> IdleClient]
  /\ ecall = [c \in Callers |-> IdleEntityCall]
  /\ lcall = [c \in Callers |-> NoList]
  /\ InitWorkerIdle
  /\ \/ \E n \in 0 .. MaxListed : \E tag \in [1 .. n -> {1, 2}] : Stored(n, tag)
     \/ Stored(TestRuns, [r \in 1 .. TestRuns |-> 1])

\* The cursor of the page the caller got last, when there is more to list.
NextCursor(c) == IF lcall[c].hasMore THEN {lcall[c].cursor} ELSE {}

\* The cursors a caller passes: none, the one it got last, or an early id.
Cursors(c, table) ==
  {NULL} \cup NextCursor(c) \cup (DOMAIN table \cap (1 .. MaxListed))

NextList ==
  \/ \E c \in Callers, limit \in Limits, st \in {"none"} \cup ListStatuses :
       \E cursor \in Cursors(c, runs) : RunsList(c, limit, st, cursor)
  \/ \E c \in Callers :
       \E cursor \in {NULL} \cup NextCursor(c) : RunsList(c, TestLimit, "none", cursor)
  \/ \E c \in Callers, limit \in Limits, r \in {1, 2} :
       \E cursor \in Cursors(c, steps) : StepsList(c, limit, r, cursor)
  \/ \E c \in Callers, limit \in Limits, r \in {0, 1, 2} :
       \E cursor \in Cursors(c, hooks) : HooksList(c, limit, r, cursor)
  \/ \E c \in Callers, limit \in Limits, so \in SortOrders, r \in {1, 2} :
       \E cursor \in Cursors(c, events) : EventsList(c, limit, so, r, cursor)

SpecList == InitList /\ [][NextList]_vars

MatchingOf(call) == Matching(call.op, call.status, call.runId)

\* A single listing of all the matching items.
SingleListing(call) ==
  ListPage(MatchingOf(call), NULL, Cardinality(MatchingOf(call)), call.sortOrder).data

\* C25: with no writes in between, the pages obtained by passing each page's
\* cursor to the next call are, concatenated, a prefix of the single listing
\* of all N matching items, and the whole of it once hasMore is false: the
\* same items in the same order, none twice and none left out.
C25_PagesEqualSingleListing ==
  \A c \in Callers :
    LET call == lcall[c]
    IN (call.op # "none" /\ call.first = NULL) =>
         /\ Len(call.pages) <= Len(SingleListing(call))
         /\ call.pages = SubSeq(SingleListing(call), 1, Len(call.pages))
         /\ ~call.hasMore => call.pages = SingleListing(call)

\* A listing of all the events of a run in pages of one has come to its end.
C25_Witness ==
  \E c \in Callers :
    /\ lcall[c].op = "events.list"
    /\ lcall[c].sortOrder = "asc"
    /\ lcall[c].first = NULL
    /\ ~lcall[c].hasMore
    /\ Len(lcall[c].pages) = MaxListed
    /\ Len(lcall[c].mores) >= 2

SeqRange(seq) == {seq[i] : i \in DOMAIN seq}

\* The matching items that lie beyond the page a call returned.
Beyond(call) ==
  {i \in MatchingOf(call) :
     /\ After(i, call.passed, call.sortOrder)
     /\ i \notin SeqRange(call.data)}

\* C26: for every list call hasMore is true exactly when a matching item lies
\* beyond the returned page, and the cursor is the id of the last item of the
\* page, null for an empty page; 25 runs listed with limit 10 three times
\* give hasMore true, true, false and strictly decreasing cursors.
C26_HasMoreAndCursor ==
  \A c \in Callers :
    LET call == lcall[c]
    IN call.op # "none" =>
         /\ call.hasMore <=> Beyond(call) # {}
         /\ call.cursor = IF call.data = <<>> THEN NULL
                          ELSE call.data[Len(call.data)]
         /\ (/\ call.op = "runs.list" /\ call.first = NULL /\ call.limit = TestLimit
             /\ Cardinality(MatchingOf(call)) = TestRuns
             /\ Len(call.mores) = 3)
            => /\ call.mores = <<TRUE, TRUE, FALSE>>
               /\ \A i \in 1 .. 2 : call.cursors[i + 1] < call.cursors[i]

\* The 25 runs have been listed with limit 10 three times.
C26_Witness ==
  \E c \in Callers :
    /\ lcall[c].op = "runs.list"
    /\ lcall[c].first = NULL
    /\ lcall[c].limit = TestLimit
    /\ Cardinality(DOMAIN runs) = TestRuns
    /\ Len(lcall[c].mores) = 3
    /\ Len(lcall[c].pages) = TestRuns


-----------------------------------------------------------------------------
(* The queue workers of one process: start, poll, handle, stop *)

WorkerScripts == {"succeeds", "alwaysThrows"}

\* Every job has been enqueued before the workers start.
InitWorker ==
  /\ dbType \in DatabaseTypes
  /\ now = 0
  /\ \E names \in [JobIds -> QueueNames] :
       jobs = [j \in JobIds |-> NewJob(names[j], NoKey)]
  /\ nextMessageId = MaxCalls + 1
  /\ qcall = [c \in QCalls |-> IdleCall]
  /\ tasks = [t \in Tasks |-> FreeTask]
  /\ handler \in [JobIds -> WorkerScripts]
  /\ execCount = [j \in JobIds |-> 0]
  /\ statusTrace = [j \in JobIds |-> <<"pending">>]
  /\ overlap = [j \in JobIds |-> FALSE]
  /\ InitRunsIdle
  /\ InitEntitiesIdle
  /\ InitStreamIdle
  /\ InitListIdle
  /\ InitWorkerIdle

NextWorker ==
  \/ WorldStart
  \/ QueueStart
  \/ SetupListeners
  \/ Stop
  \/ \E name \in QueueNames : PollQueueBegin(name)
  \/ \E name \in QueueNames : PollQueueSelect(name)
  \/ \E t \in Tasks : Lease(t)
  \/ \E t \in Tasks : LeaseSelect(t)
  \/ \E t \in Tasks : Invoke(t)
  \/ \E t \in Tasks : WriteCompleted(t)
  \/ \E t \in Tasks : WriteFailure(t)

SpecWorker == InitWorker /\ [][NextWorker]_vars

\* The database answers every statement and every handler returns or throws.
FairSpecWorker ==
  /\ SpecWorker
  /\ \A name \in QueueNames : WF_vars(PollQueueSelect(name))
  /\ \A t \in Tasks :
       /\ WF_vars(Lease(t))
       /\ WF_vars(LeaseSelect(t))
       /\ WF_vars(Invoke(t))
       /\ WF_vars(WriteCompleted(t))
       /\ WF_vars(WriteFailure(t))

\* The jobs of a queue-name that the process has leased and is handling.
Handling(name) ==
  {tasks[t].id : t \in {u \in Tasks : Holding(u) /\ jobs[tasks[u].id].queueName = name}}

\* C27: bounded worker concurrency.  For each queue-name the number of jobs
\* the process has leased and is handling at the same time never exceeds
\* queueConcurrency.
C27_BoundedConcurrency ==
  \A name \in QueueNames : Cardinality(Handling(name)) <= QueueConcurrency

\* C28: after stop() has returned all worker timers are cleared, the running
\* flag is false and no poll begins that selects or leases a job, while every
\* handler in flight runs to completion and writes its job's outcome.
C28_StopQuiesces ==
  /\ [](stopReturned => (workerIntervals = <<>> /\ ~isRunning))
  /\ [][stopReturned => \A name \in QueueNames : polling'[name] <= polling[name]]_vars
  /\ [][\A t \in Tasks :
          (Holding(t) /\ tasks'[t] = FreeTask) =>
            jobs'[tasks[t].id].status \in {"completed", "pending", "failed"}]_vars
  /\ \A t \in Tasks : (stopReturned /\ Holding(t)) ~> tasks[t] = FreeTask

\* C29: World.start() connects the adapter before it starts the queue
\* workers, and a second start() leaves the number of poll timers of each
\* queue-name at queueConcurrency.
C29_StartIdempotent ==
  /\ isRunning => connected
  /\ \A name \in QueueNames : TimersOf(name) <= QueueConcurrency
  /\ (isRunning /\ startPc = "idle") =>
       \A name \in QueueNames : TimersOf(name) = QueueConcurrency


-----------------------------------------------------------------------------
(* The two returning-compat strategies *)

\* C30: back-end equivalence.  RETURNING yields the row a statement wrote and
\* nothing when it wrote none; for the calls of one sequential caller the
\* MySQL strategy returns that same row or error status: the updated run
\* exactly when the UPDATE matched, 409 for a create whose INSERT hit a
\* duplicate key, the inserted or updated entity otherwise.  (The statement
\* executed, and with it the table contents, is the same in both strategies.)
C30_BackendEquivalence ==
  [][/\ \A c \in Clients :
          (rcall[c].pc = "select" /\ rcall'[c].pc = "idle") =>
            /\ rcall'[c].ret = IF rcall[c].matched THEN "ok" ELSE "404"
            /\ rcall[c].matched => rcall'[c].row = runs[rcall[c].id]
     /\ \A c \in Callers :
          /\ (ecall[c].pc = "caught1062" /\ ecall'[c].pc = "idle") =>
               ecall'[c].ret = "409"
          /\ (ecall[c].pc = "select" /\ ecall'[c].pc = "idle") =>
               IF ecall[c].op = "steps.update"
               THEN ecall'[c].ret =
                      IF StepFound(ecall[c].runId, ecall[c].id) THEN "ok" ELSE "404"
               ELSE ecall'[c].ret = "ok"]_vars


-----------------------------------------------------------------------------
(* The polling timer and the poll position of a stream *)

\* The readers that are attached and have not received EOF.
Remaining(ls, rd) == {r \in Readers : Subscribed(ls, r) /\ ~rd[r].closed}

\* The step is a timer callback that emits a chunk with eof=true.
PollEmitsEof ==
  \E k \in Ticks :
    /\ ticks[k].pc = "emit"
    /\ ticks'[k] = IdleTick
    /\ \E i \in (ticks[k].from + 1) .. ticks[k].to : streams[i].eof

\* C31: the polling timer of a stream is stopped only by a poll that emits a
\* chunk with eof=true or when the last attached reader detaches: a step that
\* stops the timer while another reader is attached and has not received EOF
\* is such a poll, never one reader's cancel() or initial fetch.
C31_TimerStopsOnlyAtEofOrLastDetach ==
  [][(pollingIntervals /\ ~pollingIntervals') =>
       \/ PollEmitsEof
       \/ Remaining(listeners', readers') = {}]_vars

-----------------------------------------------------------------------------
(* Concurrent callers of the hooks storage *)

InitHooks ==
  /\ dbType \in DatabaseTypes
  /\ now = 0
  /\ InitQueueIdle
  /\ InitRunsIdle
  /\ steps = <<>>
  /\ hooks = <<>>
  /\ ecall = [c \in Clients |-> IdleEntityCall]
  /\ InitStreamIdle
  /\ InitListIdle
  /\ InitWorkerIdle

NextHooks ==
  \/ \E c \in Clients, r \in RunIds, id \in HookIds, t \in Tokens : HooksCreate(c, r, id, t)
  \/ \E c \in Clients : EntitySelect(c)
  \/ \E c \in Clients, id \in HookIds : HooksGet(c, id)
  \/ \E c \in Clients, id \in HookIds : HooksDispose(c, id)
  \/ \E c \in Clients : HooksDisposeDelete(c)

SpecHooks == InitHooks /\ [][NextHooks]_vars

\* The step is the return of a hooks.dispose call of caller c with the prior row.
DisposeReturnsRow(c) ==
  /\ ecall'[c].pc = "idle"
  /\ ecall'[c].op = "hooks.dispose"
  /\ ecall'[c].ret = "ok"
  /\ \/ ecall[c].pc = "delete"
     \/ ecall[c].pc = "idle" /\ hooks' # hooks /\ hooks' = Deleted(hooks, ecall'[c].id)

\* C32: hooks.dispose removes the hook and returns the prior row atomically:
\* every dispose call that returns the prior row is the one whose DELETE removed
\* the hook, so of two concurrent calls for one hook, also on the MySQL strategy,
\* one returns the row and the other fails with 404.
C32_DisposeAtomic ==
  [][\A c \in Clients :
       DisposeReturnsRow(c) =>
         /\ ecall'[c].id \in DOMAIN hooks
         /\ ecall'[c].id \notin DOMAIN hooks'
         /\ ecall'[c].row = hooks[ecall'[c].id]]_vars

-----------------------------------------------------------------------------
(* Leases, attempts and backoff of the table queue *)

\* The step grants a lease of job j: its row goes from pending to processing.
LeaseGranted(j) ==
  /\ j \in DOMAIN jobs
  /\ jobs[j].status = "pending"
  /\ jobs'[j].status = "processing"

\* C33: every successful lease of a job increases the stored attempts by
\* exactly one, counted on the current row and not on the snapshot the poller
\* selected, so that the attempts count the leases granted and the Executor is
\* invoked at most maxAttempts times per job under every interleaving.
C33_LeaseCountsAttempts ==
  [][\A j \in JobIds :
       /\ LeaseGranted(j) => jobs'[j].attempts = jobs[j].attempts + 1
       /\ j \in DOMAIN jobs' => execCount'[j] <= maxAttempts]_vars

\* C34: backoff is respected.  A job is never moved to processing at a time
\* earlier than its current scheduledFor, also when the leasing worker
\* selected it in a poll that ran before its latest failure rescheduled it.
C34_BackoffRespected ==
  [][\A j \in JobIds : LeaseGranted(j) => jobs[j].scheduledFor <= now]_vars

-----------------------------------------------------------------------------
(* startIndex and the shared poll position *)

\* C35: readFromStream(streamId, N) skips exactly the first N logical chunks:
\* none of the first N chunks of the stream in chunkId order is delivered to
\* the reader, even when a skipped chunk reaches it both from the initial
\* fetch and from a poll notification.
C35_SkipsFirstChunks ==
  \A r \in Readers :
    \A i \in DOMAIN readers[r].delivered :
      readers[r].delivered[i] > readers[r].startIndex

\* C36: the poll position shared by the readers of a stream is never ahead of
\* the last chunk delivered to an attached, still-open reader: a reader that
\* attaches later and sets the position from its own initial fetch never makes
\* the poll skip a chunk that an earlier reader has not yet received.
C36_PollPositionNotAhead ==
  \A r \in Readers :
    (Subscribed(listeners, r) /\ readers[r].pc = "open" /\ ~readers[r].closed) =>
      lastSeenChunks <= readers[r].lastChunkId

-----------------------------------------------------------------------------
(* The jobs table under interleaved calls and workers *)

\* C37: in every reachable state, also when queue() calls with the same
\* idempotencyKey interleave their existence check and their insert, the jobs
\* table holds at most one row per non-null idempotencyKey.
C37_OneRowPerKey == \A k \in Keys : Cardinality(RowsWithKey(k)) <= 1

\* C38: job terminal states are absorbing.  Once a job's status is completed
\* or failed, no later step of any worker (lease, success write, retry write,
\* failure write) changes its status, attempts or error.
C38_TerminalAbsorbing ==
  [][\A j \in DOMAIN jobs :
       jobs[j].status \in {"completed", "failed"} =>
         /\ jobs'[j].status = jobs[j].status
         /\ jobs'[j].attempts = jobs[j].attempts
         /\ jobs'[j].error = jobs[j].error]_vars

\* C39: in every reachable state of the jobs table a job's lockedUntil is
\* non-null if and only if its status is 'processing': enqueue leaves it null,
\* a lease sets it together with status=processing, and each of the three
\* outcome writes clears it.
C39_LockedIffProcessing ==
  \A j \in DOMAIN jobs :
    (jobs[j].lockedUntil # NULL) <=> (jobs[j].status = "processing")

\* A job that was enqueued, leased, sent back to pending by a retry write,
\* leased again and marked completed.
C39_Witness ==
  \E j \in DOMAIN jobs :
    /\ jobs[j].status = "completed"
    /\ jobs[j].attempts >= 2
    /\ jobs[j].error
    /\ jobs[j].lockedUntil = NULL

-----------------------------------------------------------------------------
(* Liveness of the queue while the workers run and no worker crashes *)

\* Time passes until the backoff of a pending job is over.
TickDue ==
  /\ \E j \in DOMAIN jobs :
       /\ jobs[j].status = "pending"
       /\ jobs[j].scheduledFor > now
       /\ now' = jobs[j].scheduledFor
  /\ UNCHANGED <<dbType, listVars, workerVars, streamVars, entityVars, queueVars, runVars>>

NextLive ==
  \/ \E c \in WorkerCalls, name \in QueueNames, k \in Keys \cup {NoKey} : QueueCheck(c, name, k)
  \/ \E c \in WorkerCalls : QueueInsert(c)
  \/ \E name \in QueueNames : PollQueue(name)
  \/ \E t \in Tasks : Lease(t)
  \/ \E t \in Tasks : LeaseSelect(t)
  \/ \E t \in Tasks : Invoke(t)
  \/ \E t \in Tasks : WriteCompleted(t)
  \/ \E t \in Tasks : WriteFailure(t)
  \/ TickDue

\* The interval timers keep firing, the database answers every statement, every
\* handler returns or throws, and time passes.
FairSpecLive ==
  /\ InitQueue
  /\ [][NextLive]_vars
  /\ WF_vars(\E name \in QueueNames : PollQueue(name))
  /\ \A t \in Tasks :
       /\ WF_vars(Lease(t))
       /\ WF_vars(LeaseSelect(t))
       /\ WF_vars(Invoke(t))
       /\ WF_vars(WriteCompleted(t))
       /\ WF_vars(WriteFailure(t))
  /\ WF_vars(TickDue)

\* C40: queue liveness.  While the workers are running, no worker crashes and
\* every database write succeeds, every enqueued job eventually reaches status
\* completed or failed, under fair scheduling of the poll timers and whether
\* each handler invocation succeeds or throws.
C40_QueueLiveness ==
  \A j \in JobIds :
    [](j \in DOMAIN jobs =>
         <>(j \in DOMAIN jobs /\ jobs[j].status \in {"completed", "failed"}))

\* A job whose handler threw on every invocation has been retried and failed.
C40_Witness ==
  \E j \in DOMAIN jobs :
    /\ handler[j] = "alwaysThrows"
    /\ jobs[j].status = "failed"
    /\ execCount[j] >= maxAttempts
    /\ \A t \in Tasks : ~Active(t)

====
